---- MODULE Spec2Model ----
(***************************************************************************)
(* Model of github.com/mdlayher/sshttp: the directory cursor of            *)
(* File.Readdir, the clientPair pool of RoundTripper (Dial, lazyDial,      *)
(* Close; lazyDial also step by step from two goroutines), FileSystem's    *)
(* own pair, the request handling of RoundTrip and get, the goroutine that *)
(* streams the body of a 200 through the pipe, and httpResponse.           *)
(***************************************************************************)
EXTENDS Integers, Sequences, FiniteSets, TLC

(***************************************************************************)
(* Bounds of the model.                                                    *)
(***************************************************************************)
\* Largest number of entries the remote directory holds.
MaxEntries == 3
\* Largest count passed to Readdir (the smallest is -1).
MaxCount == 2
\* Largest number of SSH connections dialed in one behaviour.
MaxDials == 2
\* Largest number of bytes one Read of the streaming copy takes from the
\* remote file and hands to one Write on the pipe (the buffer of io.CopyN).
MaxChunk == 256

(***************************************************************************)
(* Program constants.                                                      *)
(***************************************************************************)
sftpNoSuchFile == 2
\* The length of the prefix get reads to sniff the content type.
SniffLen == 512
StatusOK == 200
StatusNotFound == 404
StatusMethodNotAllowed == 405

VARIABLES
    \* ---- File (README.md 210-225) and the remote directory it lists
    dir,        \* base names present in the remote directory (a set)
    offset,     \* File.offset
    eofNext,    \* File.eofNext
    \* ---- observation of the Readdir calls made on the handle
    delivered,  \* concatenation of the pages returned so far
    pageSize,   \* the one count used by every call so far, NoCount or Mixed
    mutated,    \* the remote directory changed since the handle was opened
    rd,         \* what the last Readdir call saw and returned
    \* ---- RoundTripper (roundtripper.go 28-31), FileSystem (README.md 267-270)
    clients,    \* every SSH connection dialed, with the SFTP client on it
    conn,       \* RoundTripper.conn: host -> index of its clientPair in clients
    fsPair,     \* FileSystem.pair: index in clients, 0 before NewFileSystem
    \* ---- observation of the calls made
    prevLazy,   \* per host, the lazyDial calls made since the last Close
    last,       \* the last call: its inputs, what it did and what it returned
    \* ---- the goroutine get starts, its pipe and the reader of the body
    stream,     \* for the latest request: file handle, producer, pipe, consumer
    \* ---- goroutines inside lazyDial on one RoundTripper at the same time
    race,       \* each goroutine's position and locals; the runtime's verdict
    \* ---- one call of httpResponse
    hcall       \* its arguments and the response it built

dirVars == <<dir, offset, eofNext, delivered, pageSize, mutated, rd>>
rtVars == <<clients, conn, fsPair, prevLazy, last>>
\* What the sequential calls on the pool and on the File leave alone.
bgVars == <<race, hcall>>
vars == <<dir, offset, eofNext, delivered, pageSize, mutated, rd,
          clients, conn, fsPair, prevLazy, last, stream, race, hcall>>

(***************************************************************************)
(* File.Readdir                                                            *)
(***************************************************************************)
\* Base names; byte-wise string order is the order of the integers.
Names == 1..MaxEntries
Counts == (-1)..MaxCount
NoCount == [used |-> "none", count |-> 0]
Mixed == [used |-> "mixed", count |-> 0]

\* byBaseName.Less
Less(a, b) == a < b

\* Insert x in the sorted sequence s, before the first element it is Less than.
RECURSIVE Insert(_, _)
Insert(x, s) ==
    IF s = <<>> THEN <<x>>
    ELSE IF Less(x, Head(s)) THEN <<x>> \o s
    ELSE <<Head(s)>> \o Insert(x, Tail(s))

\* sort.Sort(byBaseName(fis))
RECURSIVE SortByBaseName(_)
SortByBaseName(s) ==
    IF s = <<>> THEN <<>> ELSE Insert(Head(s), SortByBaseName(Tail(s)))

\* The listings sftpc.ReadDir may return for a directory holding the names d:
\* every name once, in an order the server chooses.
ReadDir(d) ==
    {s \in [1..Cardinality(d) -> d] : \A i, j \in 1..Cardinality(d) : i # j => s[i] # s[j]}

\* Go's fis[lo:hi]; the callers establish 0 <= lo <= hi <= len(fis).
Slice(fis, lo, hi) == SubSeq(fis, lo + 1, hi)

\* A slip in the remainder branch: the whole listing instead of fis[offset:].
ReaddirPageWholeRemainder(fis, count, off) ==
    IF count <= 0 \/ Len(fis) <= count
    THEN [entries |-> fis, err |-> "nil", offset |-> off, eofNext |-> TRUE]
    ELSE IF Len(fis) - off <= count
    THEN [entries |-> fis, err |-> "nil", offset |-> off, eofNext |-> TRUE]
    ELSE [entries |-> Slice(fis, off, off + count), err |-> "nil",
          offset |-> off + count, eofNext |-> FALSE]

\* The part of Readdir after the listing is fetched and sorted: the entries
\* returned, and the new offset and eofNext.  A slice whose low bound exceeds
\* len(fis) panics, after eofNext has been assigned.
ReaddirPage(fis, count, off) ==
    IF count <= 0 \/ Len(fis) <= count
    THEN [entries |-> fis, err |-> "nil", offset |-> off, eofNext |-> TRUE]
    ELSE IF Len(fis) - off <= count
    THEN IF off > Len(fis)
         THEN [entries |-> <<>>, err |-> "panic", offset |-> off, eofNext |-> TRUE]
         ELSE [entries |-> Slice(fis, off, Len(fis)), err |-> "nil",
               offset |-> off, eofNext |-> TRUE]
    ELSE [entries |-> Slice(fis, off, off + count), err |-> "nil",
          offset |-> off + count, eofNext |-> FALSE]

NotePageSize(count) ==
    IF pageSize = NoCount \/ pageSize = [used |-> "one", count |-> count]
    THEN [used |-> "one", count |-> count]
    ELSE Mixed

\* Readdir from the remote listing on: list the directory, sort, cut the page.
ReaddirFetch(count) ==
    \/ \* sftpc.ReadDir fails
       /\ rd' = [count |-> count, eofBefore |-> eofNext, offBefore |-> offset, remote |-> Cardinality(dir),
                 listed |-> TRUE, fis |-> <<>>, entries |-> <<>>, err |-> "ReadDir"]
       /\ pageSize' = NotePageSize(count)
       /\ UNCHANGED <<dir, offset, eofNext, delivered, mutated, rtVars, stream, bgVars>>
    \/ \E raw \in ReadDir(dir) :
         LET fis == SortByBaseName(raw)
             p == ReaddirPage(fis, count, offset)
         IN /\ offset' = p.offset
            /\ eofNext' = p.eofNext
            /\ delivered' = delivered \o p.entries
            /\ rd' = [count |-> count, eofBefore |-> eofNext, offBefore |-> offset, remote |-> Cardinality(dir),
                      listed |-> TRUE, fis |-> fis, entries |-> p.entries,
                      err |-> p.err]
            /\ pageSize' = NotePageSize(count)
            /\ UNCHANGED <<dir, mutated, rtVars, stream, bgVars>>

\* A slip: the eofNext test at the top of Readdir is missing.
ReaddirNoEofTest(count) == ReaddirFetch(count)

\* File.Readdir(count)
Readdir(count) ==
    IF eofNext
    THEN /\ rd' = [count |-> count, eofBefore |-> TRUE, offBefore |-> offset, remote |-> Cardinality(dir),
                   listed |-> FALSE, fis |-> <<>>, entries |-> <<>>, err |-> "EOF"]
         /\ pageSize' = NotePageSize(count)
         /\ UNCHANGED <<dir, offset, eofNext, delivered, mutated, rtVars, stream, bgVars>>
    ELSE ReaddirFetch(count)

\* Another client of the server adds an entry to the directory.
RemoteCreate(n) ==
    /\ n \notin dir
    /\ dir' = dir \cup {n}
    /\ mutated' = TRUE
    /\ UNCHANGED <<offset, eofNext, delivered, pageSize, rd, rtVars, stream, bgVars>>

\* Another client of the server removes an entry from the directory.
RemoteRemove(n) ==
    /\ n \in dir
    /\ dir' = dir \ {n}
    /\ mutated' = TRUE
    /\ UNCHANGED <<offset, eofNext, delivered, pageSize, rd, rtVars, stream, bgVars>>

NoReaddir == [count |-> 0, eofBefore |-> FALSE, offBefore |-> 0, remote |-> 0,
              listed |-> FALSE,
              fis |-> <<>>, entries |-> <<>>, err |-> "none"]

(***************************************************************************)
(* clientPair and dialSSHSFTP                                              *)
(***************************************************************************)
Hosts == {"h1:22", "h2:22"}
\* rt.config, the default of NewRoundTripper, and one per-host configuration.
DefaultConfig == "default"
Configs == {DefaultConfig, "user2"}
\* What a dial can meet: both steps succeed, ssh.Dial fails, sftp.NewClient fails.
DialOutcomes == {"ok", "sshFail", "sftpFail"}

NilErr == [kind |-> "nil", at |-> ""]
Err(kind, at) == [kind |-> kind, at |-> at]

\* An SSH connection as ssh.Dial returns it, before the SFTP subsystem is tried.
Dialed(host, config) ==
    [host |-> host, config |-> config, sshc |-> "open", sftpc |-> "none"]

\* dialSSHSFTP(host, config): the connections that exist afterwards, the pair
\* returned (0 for nil) and the error.  When sftp.NewClient fails the function
\* returns without closing the SSH connection it has dialed.
dialSSHSFTP(cl, host, config, outcome) ==
    IF outcome = "sshFail"
    THEN [clients |-> cl, pair |-> 0, err |-> Err("ssh.Dial", host)]
    ELSE IF outcome = "sftpFail"
    THEN [clients |-> Append(cl, Dialed(host, config)),
          pair |-> 0, err |-> Err("sftp.NewClient", host)]
    ELSE [clients |-> Append(cl, [Dialed(host, config) EXCEPT !.sftpc = "open"]),
          pair |-> Len(cl) + 1, err |-> NilErr]

(***************************************************************************)
(* RoundTripper.Dial, RoundTripper.lazyDial                                *)
(***************************************************************************)
NoConn == [h \in {} |-> 0]
Put(cn, host, pair) == [h \in (DOMAIN cn) \cup {host} |-> IF h = host THEN pair ELSE cn[h]]
Delete(cn, host) == [h \in (DOMAIN cn) \ {host} |-> cn[h]]

\* rt.Dial(host, config); config "nil" selects rt.config.
rtDial(cl, cn, host, config, outcome) ==
    LET c == IF config = "nil" THEN DefaultConfig ELSE config
        d == dialSSHSFTP(cl, host, c, outcome)
    IN IF d.err # NilErr
       THEN [clients |-> d.clients, conn |-> cn, err |-> d.err]
       ELSE [clients |-> d.clients, conn |-> Put(cn, host, d.pair), err |-> NilErr]

\* A slip: lazyDial dials without looking for an existing entry.
lazyDialAlways(cl, cn, host, outcome) ==
    LET d == rtDial(cl, cn, host, DefaultConfig, outcome)
    IN IF d.err # NilErr
       THEN [clients |-> d.clients, conn |-> d.conn, pair |-> 0, err |-> d.err,
             dialed |-> TRUE]
       ELSE [clients |-> d.clients, conn |-> d.conn, pair |-> d.conn[host],
             err |-> NilErr, dialed |-> TRUE]

\* rt.lazyDial(host)
lazyDial(cl, cn, host, outcome) ==
    IF host \in DOMAIN cn
    THEN [clients |-> cl, conn |-> cn, pair |-> cn[host], err |-> NilErr,
          dialed |-> FALSE]
    ELSE LET d == rtDial(cl, cn, host, DefaultConfig, outcome)
         IN IF d.err # NilErr
            THEN [clients |-> d.clients, conn |-> d.conn, pair |-> 0, err |-> d.err,
                  dialed |-> TRUE]
            ELSE [clients |-> d.clients, conn |-> d.conn, pair |-> d.conn[host],
                  err |-> NilErr, dialed |-> TRUE]

(***************************************************************************)
(* RoundTripper.Close                                                      *)
(***************************************************************************)
\* What closing one pair can meet.  A Close call that returns an error may or
\* may not have released the resource: both are kept.
CloseOutcomes == {"ok", "sftpErrOpen", "sftpErrClosed", "sshErrOpen", "sshErrClosed"}
SftpFails(o) == o \in {"sftpErrOpen", "sftpErrClosed"}
SshFails(o) == o \in {"sshErrOpen", "sshErrClosed"}

\* The state of a client after Close was called on it.
AfterClose(was, leftOpen) == IF leftOpen THEN was ELSE "closed"

\* The orders in which range may visit the keys of the map.
Orders(cn) ==
    {s \in [1..Cardinality(DOMAIN cn) -> DOMAIN cn] :
        \A i, j \in 1..Cardinality(DOMAIN cn) : i # j => s[i] # s[j]}

\* A slip: the loop notes the first error and goes on to the other hosts.
RECURSIVE CloseLoopGoesOn(_, _, _)
CloseLoopGoesOn(order, out, st) ==
    IF order = <<>> THEN st
    ELSE LET k == Head(order)
             id == st.conn[k]
             o == out[k]
             cl1 == [st.clients EXCEPT
                        ![id].sftpc = AfterClose(@, o = "sftpErrOpen")]
             cl2 == [cl1 EXCEPT ![id].sshc = AfterClose(@, o = "sshErrOpen")]
             e == IF st.err # NilErr THEN st.err
                  ELSE IF SftpFails(o) THEN Err("sftpc.Close", k)
                  ELSE IF SshFails(o) THEN Err("sshc.Close", k)
                  ELSE NilErr
         IN IF SftpFails(o)
            THEN CloseLoopGoesOn(Tail(order), out,
                     [clients |-> cl1, conn |-> st.conn, err |-> e,
                      attempts |-> st.attempts \o <<<<k, "sftpc">>>>,
                      visited |-> Append(st.visited, <<k, o>>)])
            ELSE CloseLoopGoesOn(Tail(order), out,
                     [clients |-> cl2,
                      conn |-> IF SshFails(o) THEN st.conn ELSE Delete(st.conn, k),
                      err |-> e,
                      attempts |-> st.attempts \o <<<<k, "sftpc">>, <<k, "sshc">>>>,
                      visited |-> Append(st.visited, <<k, o>>)])

\* The loop of rt.Close over the keys in the order range yields them: close the
\* SFTP client, then the SSH client, then delete the entry; return at the first
\* error.  attempts lists the Close calls made, visited the keys reached.
RECURSIVE CloseLoop(_, _, _)
CloseLoop(order, out, st) ==
    IF order = <<>> THEN st
    ELSE LET k == Head(order)
             id == st.conn[k]
             o == out[k]
             cl1 == [st.clients EXCEPT
                        ![id].sftpc = AfterClose(@, o = "sftpErrOpen")]
             cl2 == [cl1 EXCEPT ![id].sshc = AfterClose(@, o = "sshErrOpen")]
         IN IF SftpFails(o)
            THEN [clients |-> cl1, conn |-> st.conn, err |-> Err("sftpc.Close", k),
                  attempts |-> st.attempts \o <<<<k, "sftpc">>>>,
                  visited |-> Append(st.visited, <<k, o>>)]
            ELSE IF SshFails(o)
            THEN [clients |-> cl2, conn |-> st.conn, err |-> Err("sshc.Close", k),
                  attempts |-> st.attempts \o <<<<k, "sftpc">>, <<k, "sshc">>>>,
                  visited |-> Append(st.visited, <<k, o>>)]
            ELSE CloseLoop(Tail(order), out,
                     [clients |-> cl2, conn |-> Delete(st.conn, k), err |-> NilErr,
                      attempts |-> st.attempts \o <<<<k, "sftpc">>, <<k, "sshc">>>>,
                      visited |-> Append(st.visited, <<k, o>>)])

(***************************************************************************)
(* stickyError, FileSystem.Close                                           *)
(***************************************************************************)
\* stickyError.Set: the stored error when one is stored, else the new one.
\* A slip: Set stores every non-nil error, so that the latest one is kept.
StickySetKeepsLatest(e, err) == IF err # NilErr THEN err ELSE e

StickySet(e, err) == IF e # NilErr THEN e ELSE err

\* fs.Close(): both Close calls are made, the first error is returned.
fsClose(cl, id, o) ==
    LET cl1 == [cl EXCEPT ![id].sftpc = AfterClose(@, o.sftp = "errOpen")]
        cl2 == [cl1 EXCEPT ![id].sshc = AfterClose(@, o.ssh = "errOpen")]
        e1 == StickySet(NilErr, IF o.sftp = "ok" THEN NilErr ELSE Err("sftpc.Close", "fs"))
        e2 == StickySet(e1, IF o.ssh = "ok" THEN NilErr ELSE Err("sshc.Close", "fs"))
    IN [clients |-> cl2, err |-> e2,
        attempts |-> <<<<"fs", "sftpc">>, <<"fs", "sshc">>>>]

(***************************************************************************)
(* httpResponse                                                            *)
(***************************************************************************)
\* http.Header: header name -> its values in order.
NoHeader == [k \in {} |-> <<>>]
HGet(h, k) == IF k \in DOMAIN h /\ h[k] # <<>> THEN h[k][1] ELSE ""
HSet(h, k, v) == [x \in (DOMAIN h) \cup {k} |-> IF x = k THEN <<v>> ELSE h[x]]
HAddAll(h, k, vs) ==
    [x \in (DOMAIN h) \cup {k} |->
        IF x = k THEN (IF k \in DOMAIN h THEN h[k] ELSE <<>>) \o vs ELSE h[x]]

\* h.Add files a value under the canonical form of the key it is given.
CanonicalKey(k) ==
    CASE k = "date" -> "Date"
      [] k = "content-type" -> "Content-Type"
      [] k = "connection" -> "Connection"
      [] OTHER -> k

RECURSIVE HMerge(_, _, _)
HMerge(h, headers, keys) ==
    IF keys = {} THEN h
    ELSE LET k == CHOOSE x \in keys : TRUE
         IN HMerge(HAddAll(h, CanonicalKey(k), headers[k]), headers, keys \ {k})

\* time.Now().UTC().Format(http.TimeFormat) at the time of the call.
Now == "now"

\* A slip: Connection: close is set on every response that is not a 200,
\* over a value the caller supplied.
httpResponseAlwaysCloses(code, body, headers) ==
    LET h0 == HMerge(HSet(NoHeader, "Server", "github.com/mdlayher/sshttp"),
                     headers, DOMAIN headers)
        h1 == IF HGet(h0, "Date") = "" THEN HSet(h0, "Date", Now) ELSE h0
        h2 == IF HGet(h1, "Content-Type") = ""
              THEN HSet(h1, "Content-Type", "text/plain; charset=utf-8") ELSE h1
        h3 == IF code # StatusOK THEN HSet(h2, "Connection", "close") ELSE h2
    IN [StatusCode |-> code, Body |-> body, Header |-> h3]

\* httpResponse(code, body, headers)
httpResponse(code, body, headers) ==
    LET h0 == HMerge(HSet(NoHeader, "Server", "github.com/mdlayher/sshttp"),
                     headers, DOMAIN headers)
        h1 == IF HGet(h0, "Date") = "" THEN HSet(h0, "Date", Now) ELSE h0
        h2 == IF HGet(h1, "Content-Type") = ""
              THEN HSet(h1, "Content-Type", "text/plain; charset=utf-8") ELSE h1
        h3 == IF code # StatusOK /\ HGet(h2, "Connection") = ""
              THEN HSet(h2, "Connection", "close") ELSE h2
    IN [StatusCode |-> code, Body |-> body, Header |-> h3]

\* No response: the nil *http.Response.
NoResp == [StatusCode |-> 0, Body |-> "nil", Header |-> NoHeader]

\* The status codes the program passes to httpResponse.
Codes == {StatusOK, StatusNotFound, StatusMethodNotAllowed}
\* What a caller may hand over for one header: nothing, one value, two values,
\* an empty value, or one value under a key that is not in canonical form.
Supplied == {"absent", "one", "two", "empty", "lower"}
\* The headers argument in which the three headers are supplied as sel says.
CallerHeaders(sel) ==
    LET key(K, l) == IF sel[K] = "lower" THEN l ELSE K
        val(K) == CASE sel[K] = "two" -> <<K, "again">>
                    [] sel[K] = "empty" -> <<"">>
                    [] OTHER -> <<K>>
        keys == {k \in {"Date", "Content-Type", "Connection",
                         "date", "content-type", "connection"} :
                    /\ sel[CanonicalKey(k)] # "absent"
                    /\ (sel[CanonicalKey(k)] = "lower") = (k # CanonicalKey(k))}
    IN [k \in keys |-> val(CanonicalKey(k))]

\* hcall before httpResponse is called.
NoCall == [code |-> 0, sel |-> [K \in {} |-> ""], headers |-> NoHeader, resp |-> NoResp]

\* One call httpResponse(code, nil, headers).
HttpResponse(code, sel) ==
    /\ hcall' = [code |-> code, sel |-> sel, headers |-> CallerHeaders(sel),
                 resp |-> httpResponse(code, "nil", CallerHeaders(sel))]
    /\ UNCHANGED <<dirVars, rtVars, stream, race>>

(***************************************************************************)
(* The remote file system, as Open, Stat and Read report it                *)
(***************************************************************************)
\* status: 0 when Open succeeds, else the code of the sftp.StatusError
\* ("/denied" has the next code after "no such file", permission denied);
\* ext: filepath.Ext of the name; size: what Stat reports and Read delivers.
RemoteFS ==
    [p \in {"/missing", "/denied", "/hello.txt", "/empty", "/one", "/b511",
            "/b512", "/b513", "/empty.txt", "/one.txt", "/b511.txt"} |->
        CASE p = "/missing"   -> [status |-> sftpNoSuchFile, ext |-> "", size |-> 0]
          [] p = "/denied"    -> [status |-> sftpNoSuchFile + 1, ext |-> "", size |-> 0]
          [] p = "/hello.txt" -> [status |-> 0, ext |-> ".txt", size |-> 3]
          [] p = "/empty"     -> [status |-> 0, ext |-> "", size |-> 0]
          [] p = "/one"       -> [status |-> 0, ext |-> "", size |-> 1]
          [] p = "/b511"      -> [status |-> 0, ext |-> "", size |-> SniffLen - 1]
          [] p = "/b512"      -> [status |-> 0, ext |-> "", size |-> SniffLen]
          [] p = "/b513"      -> [status |-> 0, ext |-> "", size |-> SniffLen + 1]
          [] p = "/empty.txt" -> [status |-> 0, ext |-> ".txt", size |-> 0]
          [] p = "/one.txt"   -> [status |-> 0, ext |-> ".txt", size |-> 1]
          [] p = "/b511.txt"  -> [status |-> 0, ext |-> ".txt", size |-> SniffLen - 1]]
Paths == DOMAIN RemoteFS
\* Files that get handles as it handles /hello.txt, whatever their size: the
\* extension gives the type and nothing is read before the body is streamed.
TextPaths == {"/empty.txt", "/one.txt", "/b511.txt"}

\* The bytes of every file.
Contents ==
    [p \in Paths |-> [i \in 1..RemoteFS[p].size |-> (i * 31 + RemoteFS[p].size) % 256]]
\* The bytes of a file.
Content(p) == Contents[p]

\* mime.TypeByExtension
TypeByExtension(ext) == IF ext = ".txt" THEN "text/plain; charset=utf-8" ELSE ""

\* http.DetectContentType, reduced to text against binary.
DetectContentType(data) ==
    IF \E i \in 1..Len(data) : data[i] < 9
    THEN "application/octet-stream" ELSE "text/plain; charset=utf-8"

\* io.EOF
ioEOF == Err("EOF", "Read")

\* io.CopyN(dst, f, n) on a file of the given size read from position pos: the
\* bytes written, and io.EOF when the file ends before n bytes.
CopyN(size, pos, n) ==
    LET avail == IF size > pos THEN size - pos ELSE 0
    IN IF avail >= n THEN [written |-> n, err |-> NilErr]
       ELSE [written |-> avail, err |-> ioEOF]

\* An I/O step of a request that the environment makes fail, if any.
Faults == {"none", "open", "stat", "read", "seek"}

(***************************************************************************)
(* get, RoundTripper.RoundTrip                                             *)
(***************************************************************************)
\* What a call did and returned.  ops: the remote file operations made, in
\* order; nread: bytes read for sniffing; pos: the read cursor of the handle;
\* handle: "none" when no file was opened, else "open" or "closed";
\* goroutine: the streaming goroutine was started.
Outcome(resp, err, ops, nread, pos, handle, goroutine) ==
    [resp |-> resp, err |-> err, ops |-> ops, nread |-> nread, pos |-> pos,
     handle |-> handle, goroutine |-> goroutine]

\* A slip: every sftp.StatusError of Open is answered with a 404.
openFailureAlways404(status) ==
    Outcome(httpResponse(StatusNotFound, "nil", NoHeader), NilErr,
            <<"Open">>, 0, 0, "none", FALSE)

\* get when Open returned the *sftp.StatusError with this code.
openFailure(status) ==
    IF status = sftpNoSuchFile
    THEN Outcome(httpResponse(StatusNotFound, "nil", NoHeader), NilErr,
                 <<"Open">>, 0, 0, "none", FALSE)
    ELSE Outcome(NoResp, Err("status", ToString(status)),
                 <<"Open">>, 0, 0, "none", FALSE)

\* get(p, r), to the point where it returns.
get(sftpOpen, path, fault) ==
    LET file == RemoteFS[path]
        h0 == HSet(HSet(NoHeader, "Content-Length", ToString(file.size)),
                   "Last-Modified", "mtime")
        cType == TypeByExtension(file.ext)
        cp == CopyN(file.size, 0, SniffLen)
        sniffed == DetectContentType(SubSeq(Content(path), 1, cp.written))
    IN IF ~sftpOpen \/ fault = "open"
       THEN \* Open fails with an error that is no *sftp.StatusError
            Outcome(NoResp, Err("conn", "Open"), <<"Open">>, 0, 0, "none", FALSE)
       ELSE IF file.status # 0
       THEN openFailure(file.status)
       ELSE IF fault = "stat"
       THEN Outcome(NoResp, Err("conn", "Stat"), <<"Open", "Stat">>, 0, 0, "open", FALSE)
       ELSE IF cType # ""
       THEN Outcome(httpResponse(StatusOK, "pipe", HSet(h0, "Content-Type", cType)),
                    NilErr, <<"Open", "Stat">>, 0, 0, "open", TRUE)
       ELSE IF fault = "read"
       THEN Outcome(NoResp, Err("conn", "Read"), <<"Open", "Stat", "Read">>,
                    0, 0, "open", FALSE)
       ELSE IF cp.err # NilErr
       THEN Outcome(NoResp, cp.err, <<"Open", "Stat", "Read">>,
                    cp.written, cp.written, "open", FALSE)
       ELSE IF fault = "seek"
       THEN Outcome(NoResp, Err("conn", "Seek"), <<"Open", "Stat", "Read", "Seek">>,
                    cp.written, cp.written, "open", FALSE)
       ELSE Outcome(httpResponse(StatusOK, "pipe", HSet(h0, "Content-Type", sniffed)),
                    NilErr, <<"Open", "Stat", "Read", "Seek">>,
                    cp.written, 0, "open", TRUE)

\* fs.Open(name), to the point where it returns: the handle is returned to
\* the caller inside the File when the error is nil.
fsOpen(sftpOpen, path, fault) ==
    LET file == RemoteFS[path]
    IN IF ~sftpOpen \/ fault = "open"
       THEN Outcome(NoResp, Err("conn", "Open"), <<"Open">>, 0, 0, "none", FALSE)
       ELSE IF file.status # 0
       THEN Outcome(NoResp, Err("status", ToString(file.status)), <<"Open">>,
                    0, 0, "none", FALSE)
       ELSE IF fault = "stat"
       THEN Outcome(NoResp, Err("conn", "Stat"), <<"Open", "Stat">>, 0, 0, "open", FALSE)
       ELSE Outcome(NoResp, NilErr, <<"Open", "Stat">>, 0, 0, "open", FALSE)

Methods == {"GET", "POST", "HEAD", ""}

\* A slip: the method switch has a case for HEAD that shares the GET branch.
dispatchHeadAsGet(method, sftpOpen, path, fault) ==
    IF method \in {"GET", "HEAD"} THEN get(sftpOpen, path, fault)
    ELSE Outcome(httpResponse(StatusMethodNotAllowed, "nil", NoHeader), NilErr,
                 <<>>, 0, 0, "none", FALSE)

\* The switch on r.Method in RoundTrip, after lazyDial has returned a pair.
dispatch(method, sftpOpen, path, fault) ==
    IF method = "GET" THEN get(sftpOpen, path, fault)
    ELSE Outcome(httpResponse(StatusMethodNotAllowed, "nil", NoHeader), NilErr,
                 <<>>, 0, 0, "none", FALSE)

(***************************************************************************)
(* The goroutine of get, the pipe and the reader of the response body      *)
(***************************************************************************)
\* stream, for the latest request only (an earlier body is taken to be
\* finished with or abandoned):
\*   path, size      the file and the size Stat reported (stat.Size())
\*   flen, fpos      the bytes the remote file holds now; the cursor of f
\*   handle, fcloses the state of f and the number of f.Close() calls
\*   started, ppc    goroutines started; where the goroutine is: "copy" (in
\*                   io.CopyN, about to Read), "write" (in pw.Write), "fclose",
\*                   "pclose", "done", or "panic"
\*   copied, wlen    bytes io.CopyN has written; the length of the Write under way
\*   cpErr, clErr    what io.CopyN and f.Close() returned; sErr the stickyError
\*   wbuf            bytes of the Write under way that no Read has taken yet
\*   wclosed, werr   pw was closed, and the error the reader is to see
\*   rclosed         the consumer closed the body (pr.Close())
\*   body            the bytes the consumer's Reads have returned
\*   ended, cerr     a Read returned an error, and that error
\*   early           the consumer closed the body short of size bytes
\*   faulted         a remote Read or Close failed, or the file was cut short
NoStream ==
    [path |-> "", size |-> 0, flen |-> 0, fpos |-> 0, handle |-> "none",
     fcloses |-> 0, started |-> 0, ppc |-> "none", copied |-> 0, wlen |-> 0,
     cpErr |-> NilErr, clErr |-> NilErr, sErr |-> NilErr, wbuf |-> <<>>,
     wclosed |-> FALSE, werr |-> NilErr, rclosed |-> FALSE, body |-> <<>>,
     ended |-> FALSE, cerr |-> NilErr, early |-> FALSE, faulted |-> FALSE]

\* A slip: the goroutine is started on the handle as the sniffing read left it.
StartStreamNoRewind(path, o) ==
    [NoStream EXCEPT !.path = path, !.size = RemoteFS[path].size,
                     !.flen = RemoteFS[path].size, !.fpos = o.nread,
                     !.handle = o.handle, !.started = 1, !.ppc = "copy"]

\* pr, pw := io.Pipe(); go func() {...}() when get returns its 200.
StartStream(path, o) ==
    [NoStream EXCEPT !.path = path, !.size = RemoteFS[path].size,
                     !.flen = RemoteFS[path].size, !.fpos = o.pos,
                     !.handle = o.handle, !.started = 1, !.ppc = "copy"]

Min(a, b) == IF a < b THEN a ELSE b

\* The copy loop of io.CopyN(pw, f, stat.Size()) takes its next chunk from f:
\* none when stat.Size() bytes are written (the copy ends with nil); else the
\* Read fails (fail), or finds the file at its end (io.EOF, as written < n), or
\* returns up to MaxChunk bytes which the loop goes on to Write.
ProducerRead(fail) ==
    /\ stream.ppc = "copy"
    /\ LET remaining == stream.size - stream.copied
           avail == IF stream.flen > stream.fpos THEN stream.flen - stream.fpos ELSE 0
           k == Min(MaxChunk, Min(remaining, avail))
           ends(err) == [stream EXCEPT !.ppc = "fclose", !.cpErr = err,
                                       !.sErr = StickySet(stream.sErr, err)]
       IN /\ fail => remaining > 0
          /\ stream' =
                IF remaining = 0 THEN ends(NilErr)
                ELSE IF fail THEN [ends(Err("conn", "Read")) EXCEPT !.faulted = TRUE]
                ELSE IF avail = 0 THEN ends(ioEOF)
                ELSE [stream EXCEPT
                        !.wbuf = @ \o SubSeq(Content(stream.path),
                                             stream.fpos + 1, stream.fpos + k),
                        !.wlen = k, !.fpos = @ + k, !.ppc = "write"]
    /\ UNCHANGED <<dirVars, rtVars, bgVars>>

\* A slip: the pipe buffers, a Write returns before any Read has taken its bytes.
ProducerWriteBuffered ==
    /\ stream.ppc = "write"
    /\ stream' = [stream EXCEPT !.copied = @ + stream.wlen, !.wlen = 0,
                                !.ppc = "copy"]
    /\ UNCHANGED <<dirVars, rtVars, bgVars>>

\* A slip: a Write waits for its bytes to be read whether or not the reader
\* has closed the pipe.
ProducerWriteIgnoresClose ==
    /\ stream.ppc = "write"
    /\ stream.wbuf = <<>>
    /\ stream' = [stream EXCEPT !.copied = @ + stream.wlen, !.wlen = 0,
                                !.ppc = "copy"]
    /\ UNCHANGED <<dirVars, rtVars, bgVars>>

\* pw.Write(chunk) returns: when Reads have taken every byte of it, or with
\* io.ErrClosedPipe when the reader has closed the pipe first; the error ends
\* io.CopyN.
ProducerWriteDone ==
    /\ stream.ppc = "write"
    /\ stream.wbuf = <<>> \/ stream.rclosed
    /\ stream' =
          IF stream.wbuf = <<>>
          THEN [stream EXCEPT !.copied = @ + stream.wlen, !.wlen = 0, !.ppc = "copy"]
          ELSE [stream EXCEPT !.copied = @ + (stream.wlen - Len(stream.wbuf)),
                              !.wlen = 0, !.wbuf = <<>>,
                              !.cpErr = Err("ErrClosedPipe", "Write"),
                              !.sErr = StickySet(stream.sErr, Err("ErrClosedPipe", "Write")),
                              !.ppc = "fclose"]
    /\ UNCHANGED <<dirVars, rtVars, bgVars>>

\* sErr.Set(f.Close())
ProducerFileClose(fail) ==
    /\ stream.ppc = "fclose"
    /\ LET err == IF fail THEN Err("conn", "Close") ELSE NilErr
       IN stream' = [stream EXCEPT !.handle = "closed", !.fcloses = @ + 1,
                                   !.clErr = err,
                                   !.sErr = StickySet(stream.sErr, err),
                                   !.faulted = @ \/ fail, !.ppc = "pclose"]
    /\ UNCHANGED <<dirVars, rtVars, bgVars>>

\* pw.CloseWithError(err): the reader is to see err, io.EOF when err is nil;
\* the call returns nil.
CloseWithError(err) ==
    [werr |-> IF err = NilErr THEN ioEOF ELSE err, ret |-> NilErr]

\* if err := pw.CloseWithError(sErr.Get()); err != nil { panic(err) }
ProducerPipeClose ==
    /\ stream.ppc = "pclose"
    /\ LET c == CloseWithError(stream.sErr)
       IN stream' = [stream EXCEPT !.wclosed = TRUE, !.werr = c.werr,
                                   !.ppc = IF c.ret # NilErr THEN "panic" ELSE "done"]
    /\ UNCHANGED <<dirVars, rtVars, bgVars>>

\* One Read on the body: it takes bytes of the Write under way (one, or all of
\* them), or when no Write is under way and pw is closed, returns the error pw
\* was closed with.  With neither it blocks.
ConsumerRead(all) ==
    /\ stream.started = 1
    /\ ~stream.rclosed /\ ~stream.ended
    /\ IF stream.wbuf # <<>>
       THEN LET n == IF all THEN Len(stream.wbuf) ELSE 1
            IN stream' = [stream EXCEPT
                             !.body = @ \o SubSeq(stream.wbuf, 1, n),
                             !.wbuf = SubSeq(@, n + 1, Len(@))]
       ELSE /\ stream.wclosed
            /\ all
            /\ stream' = [stream EXCEPT !.ended = TRUE, !.cerr = stream.werr]
    /\ UNCHANGED <<dirVars, rtVars, bgVars>>

\* The consumer closes the body: pr.Close().
ConsumerClose ==
    /\ stream.started = 1
    /\ ~stream.rclosed
    /\ stream' = [stream EXCEPT !.rclosed = TRUE,
                                !.early = Len(stream.body) < stream.size]
    /\ UNCHANGED <<dirVars, rtVars, bgVars>>

\* Another client cuts the last byte off the remote file while it is streamed.
RemoteTruncate ==
    /\ stream.ppc \in {"copy", "write"}
    /\ stream.flen = stream.size
    /\ stream.flen > 0
    /\ stream' = [stream EXCEPT !.flen = @ - 1, !.faulted = TRUE]
    /\ UNCHANGED <<dirVars, rtVars, bgVars>>

(***************************************************************************)
(* lazyDial called from several goroutines                                 *)
(***************************************************************************)
\* Two goroutines call RoundTrip on one RoundTripper; of each call only
\* lazyDial matters here.  race.thr[g]: where goroutine g is ("idle", "check":
\* about to read rt.conn[host] in lazyDial, "dial": in dialSSHSFTP, "store":
\* about to assign rt.conn[host] in Dial, "load": about to read rt.conn[host]
\* for the return, "done"), the host, and the pair and error it holds or
\* returned.  race.crashed: the runtime stopped the program on finding the map
\* read or written while another goroutine writes it.
Goroutines == {1, 2}
NoThread == [pc |-> "idle", host |-> "", pair |-> 0, err |-> NilErr]
NoRace == [thr |-> [g \in Goroutines |-> NoThread], crashed |-> FALSE]

\* The map has no lock: an access by g with another goroutine about to make an
\* access of one of these kinds is a data race, which the runtime may or may
\* not detect and stop the program for.
MayCrash(g, kinds) ==
    IF \E o \in Goroutines \ {g} : race.thr[o].pc \in kinds THEN BOOLEAN ELSE {FALSE}

\* Goroutine g calls rt.RoundTrip(r) with r.URL.Host = host.
Go(g, host) ==
    /\ ~race.crashed
    /\ race.thr[g].pc = "idle"
    /\ race' = [race EXCEPT !.thr[g] = [NoThread EXCEPT !.pc = "check", !.host = host]]
    /\ UNCHANGED <<dirVars, rtVars, stream, hcall>>

\* p, ok := rt.conn[host]; if ok { return p, nil }
LazyCheck(g) ==
    /\ ~race.crashed
    /\ race.thr[g].pc = "check"
    /\ \E crash \in MayCrash(g, {"store"}) :
          race' = [race EXCEPT
                      !.crashed = crash,
                      !.thr[g] = IF race.thr[g].host \in DOMAIN conn
                                 THEN [@ EXCEPT !.pc = "done", !.pair = conn[race.thr[g].host]]
                                 ELSE [@ EXCEPT !.pc = "dial"]]
    /\ UNCHANGED <<dirVars, rtVars, stream, hcall>>

\* rt.Dial(host, rt.config) as far as pair, err := dialSSHSFTP(host, config)
LazyDialNet(g, outcome) ==
    /\ ~race.crashed
    /\ race.thr[g].pc = "dial"
    /\ outcome # "sshFail" => Len(clients) < MaxDials
    /\ LET d == dialSSHSFTP(clients, race.thr[g].host, DefaultConfig, outcome)
       IN /\ clients' = d.clients
          /\ race' = [race EXCEPT
                         !.thr[g] = IF d.err # NilErr
                                    THEN [@ EXCEPT !.pc = "done", !.err = d.err]
                                    ELSE [@ EXCEPT !.pc = "store", !.pair = d.pair]]
    /\ UNCHANGED <<dirVars, conn, fsPair, prevLazy, last, stream, hcall>>

\* rt.conn[host] = pair
LazyStore(g) ==
    /\ ~race.crashed
    /\ race.thr[g].pc = "store"
    /\ conn' = Put(conn, race.thr[g].host, race.thr[g].pair)
    /\ \E crash \in MayCrash(g, {"check", "store", "load"}) :
          race' = [race EXCEPT !.crashed = crash,
                               !.thr[g] = [@ EXCEPT !.pc = "load", !.pair = 0]]
    /\ UNCHANGED <<dirVars, clients, fsPair, prevLazy, last, stream, hcall>>

\* return rt.conn[host], nil
LazyLoad(g) ==
    /\ ~race.crashed
    /\ race.thr[g].pc = "load"
    /\ \E crash \in MayCrash(g, {"store"}) :
          race' = [race EXCEPT !.crashed = crash,
                               !.thr[g] = [@ EXCEPT !.pc = "done",
                                                    !.pair = conn[race.thr[g].host]]]
    /\ UNCHANGED <<dirVars, rtVars, stream, hcall>>

(***************************************************************************)
(* The calls a program makes on one RoundTripper and one FileSystem        *)
(***************************************************************************)
\* prevLazy[h]: whether lazyDial(h) was called since the last Close, the pair
\* the latest such call returned (0 for nil), whether that call dialed, and
\* whether a Dial has replaced the entry of h since.
NoLazy == [called |-> FALSE, pair |-> 0, dialed |-> FALSE, replaced |-> FALSE]
NoOutcome == Outcome(NoResp, NilErr, <<>>, 0, 0, "none", FALSE)
\* last: the call (op, host, method, path, the fault injected), the error it
\* returned, whether it dialed, the pair lazyDial returned, whether an earlier
\* lazyDial for the host had returned a pair with no Close and no successful
\* Dial for the host since (again), the Close calls it made on clients
\* (attempts) with the keys it reached (visited; for fs.Close, how each of its
\* two Close calls ended), and for a RoundTrip what the request did and
\* returned (out).
NoLast ==
    [op |-> "none", host |-> "", err |-> NilErr, dialed |-> FALSE, pair |-> 0,
     again |-> FALSE, attempts |-> <<>>, visited |-> <<>>,
     method |-> "", path |-> "", fault |-> "none", out |-> NoOutcome]

\* rt.Dial(host, config)
Dial(host, config, outcome) ==
    /\ outcome # "sshFail" => Len(clients) < MaxDials
    /\ LET d == rtDial(clients, conn, host, config, outcome)
       IN /\ clients' = d.clients
          /\ conn' = d.conn
          /\ prevLazy' = IF d.err = NilErr
                         THEN [prevLazy EXCEPT ![host].replaced = prevLazy[host].called]
                         ELSE prevLazy
          /\ last' = [NoLast EXCEPT !.op = "Dial", !.host = host, !.err = d.err,
                          !.dialed = TRUE]
    /\ UNCHANGED <<fsPair, dirVars, stream, bgVars>>

\* rt.RoundTrip(r) with r.URL.Host = host, r.Method = method, r.URL.Path = path
RoundTrip(host, method, path, fault, outcome) ==
    /\ (host \notin DOMAIN conn /\ outcome # "sshFail") => Len(clients) < MaxDials
    /\ host \in DOMAIN conn => outcome = "ok"    \* nothing is dialed: one case
    /\ LET l == lazyDial(clients, conn, host, outcome)
           o == IF l.err # NilErr
                THEN Outcome(NoResp, l.err, <<>>, 0, 0, "none", FALSE)
                ELSE dispatch(method, l.clients[l.pair].sftpc = "open", path, fault)
       IN /\ clients' = l.clients
          /\ conn' = l.conn
          /\ prevLazy' = [prevLazy EXCEPT ![host] =
                             [called |-> TRUE, pair |-> l.pair,
                              dialed |-> l.dialed, replaced |-> FALSE]]
          /\ last' = [NoLast EXCEPT !.op = "RoundTrip", !.host = host, !.err = o.err,
                          !.dialed = l.dialed, !.pair = l.pair,
                          !.again = (prevLazy[host].called /\ prevLazy[host].pair # 0
                                     /\ ~prevLazy[host].replaced),
                          !.method = method,
                          !.path = path, !.fault = fault, !.out = o]
          /\ stream' = IF o.goroutine THEN StartStream(path, o) ELSE NoStream
    /\ UNCHANGED <<fsPair, dirVars, bgVars>>

\* rt.Close()
Close(order, out) ==
    \* the outcomes of Close calls that are never made are left at "ok"
    /\ \A i \in 1..Len(order) :
          (\E j \in 1..(i - 1) : out[order[j]] # "ok") => out[order[i]] = "ok"
    /\ LET st == CloseLoop(order, out,
                     [clients |-> clients, conn |-> conn, err |-> NilErr,
                      attempts |-> <<>>, visited |-> <<>>])
       IN /\ clients' = st.clients
          /\ conn' = st.conn
          /\ prevLazy' = [h \in Hosts |-> NoLazy]
          /\ last' = [NoLast EXCEPT !.op = "Close", !.err = st.err,
                          !.attempts = st.attempts, !.visited = st.visited]
          /\ UNCHANGED <<fsPair, dirVars, stream, bgVars>>

Protocol == "sftp"

\* NewFileSystem(uri, config) with uri = scheme://host/path
NewFileSystem(scheme, host, config, outcome) ==
    /\ fsPair = 0
    /\ (scheme = Protocol /\ outcome # "sshFail") => Len(clients) < MaxDials
    /\ IF scheme # Protocol
       THEN /\ last' = [NoLast EXCEPT !.op = "NewFileSystem", !.host = host,
                            !.err = Err("scheme", scheme)]
            /\ UNCHANGED <<clients, fsPair>>
       ELSE LET d == dialSSHSFTP(clients, host, config, outcome)
            IN /\ clients' = d.clients
               /\ fsPair' = d.pair
               /\ last' = [NoLast EXCEPT !.op = "NewFileSystem", !.host = host,
                               !.err = d.err, !.dialed = TRUE, !.pair = d.pair]
    /\ UNCHANGED <<conn, prevLazy, dirVars, stream, bgVars>>

FSCloseOutcomes == [sftp : {"ok", "errOpen", "errClosed"}, ssh : {"ok", "errOpen", "errClosed"}]

\* fs.Close()
FSClose(o) ==
    /\ fsPair # 0
    /\ LET c == fsClose(clients, fsPair, o)
       IN /\ clients' = c.clients
          /\ last' = [NoLast EXCEPT !.op = "FSClose", !.err = c.err, !.pair = fsPair,
                          !.attempts = c.attempts, !.visited = <<o.sftp, o.ssh>>]
    /\ UNCHANGED <<conn, fsPair, prevLazy, dirVars, stream, bgVars>>

\* fs.Open(name)
FSOpen(path, fault) ==
    /\ fsPair # 0
    /\ LET o == fsOpen(clients[fsPair].sftpc = "open", path, fault)
       IN last' = [NoLast EXCEPT !.op = "Open", !.err = o.err, !.pair = fsPair,
                       !.path = path, !.fault = fault, !.out = o]
    /\ UNCHANGED <<clients, conn, fsPair, prevLazy, dirVars, stream, bgVars>>

\* NewRoundTripper(config): an empty pool; no FileSystem yet.
InitRT ==
    /\ clients = <<>>
    /\ conn = NoConn
    /\ fsPair = 0
    /\ prevLazy = [h \in Hosts |-> NoLazy]
    /\ last = NoLast

\* No directory handle is in use.
InitNoFile ==
    /\ dir = {}
    /\ offset = 0
    /\ eofNext = FALSE
    /\ delivered = <<>>
    /\ pageSize = NoCount
    /\ mutated = FALSE
    /\ rd = NoReaddir

\* No goroutine is running and httpResponse has not been called.
InitIdle ==
    /\ stream = NoStream
    /\ race = NoRace
    /\ hcall = NoCall

Init == InitNoFile /\ InitRT /\ InitIdle

\* Dial, RoundTrip and Close on one RoundTripper in any order; the requests
\* are GETs of one file that exists, and no file operation is made to fail.
Next ==
    \/ \E host \in Hosts, config \in {"nil"} \cup (Configs \ {DefaultConfig}),
          outcome \in DialOutcomes : Dial(host, config, outcome)
    \/ \E host \in Hosts, outcome \in DialOutcomes :
          RoundTrip(host, "GET", "/hello.txt", "none", outcome)
    \/ \E order \in Orders(conn), out \in [DOMAIN conn -> CloseOutcomes] :
          Close(order, out)

Spec == Init /\ [][Next]_vars

\* Requests to one host of every method, for every path that get treats in a
\* way of its own and with every failure of a file operation, on a
\* RoundTripper that is closed now and then.
NextGet ==
    \/ \E method \in Methods, path \in Paths \ TextPaths, fault \in Faults,
          outcome \in DialOutcomes :
          RoundTrip("h1:22", method, path, fault, outcome)
    \/ \E order \in Orders(conn), out \in [DOMAIN conn -> CloseOutcomes] :
          Close(order, out)

SpecGet == Init /\ [][NextGet]_vars

\* One FileSystem: NewFileSystem until it succeeds, then Open and Close, any
\* number of times.
NextFS ==
    \/ \E scheme \in {Protocol, "http"}, host \in Hosts, config \in Configs,
          outcome \in DialOutcomes : NewFileSystem(scheme, host, config, outcome)
    \/ \E o \in FSCloseOutcomes : FSClose(o)
    \/ \E path \in {"/missing", "/hello.txt"}, fault \in {"none", "open", "stat"} :
          FSOpen(path, fault)

SpecFS == Init /\ [][NextFS]_vars

\* GETs of every path on one host, one after the other; the goroutine of a
\* 200, the reader of its body and the remote file take steps in any order.
Producer ==
    \/ \E fail \in BOOLEAN : ProducerRead(fail)
    \/ ProducerWriteDone
    \/ \E fail \in BOOLEAN : ProducerFileClose(fail)
    \/ ProducerPipeClose

NextStream ==
    \/ \E path \in Paths :
          /\ stream.ppc \in {"none", "done"}
          /\ RoundTrip("h1:22", "GET", path, "none", "ok")
    \/ Producer
    \/ \E all \in BOOLEAN : ConsumerRead(all)
    \/ ConsumerClose
    \/ RemoteTruncate

SpecStream == Init /\ [][NextStream]_vars

\* The goroutine is scheduled, and its remote calls return.
FairStream == SpecStream /\ WF_vars(Producer)

\* Two goroutines, each making one RoundTrip, their steps in any order.
NextRace ==
    \/ \E g \in Goroutines, host \in Hosts : Go(g, host)
    \/ \E g \in Goroutines : LazyCheck(g)
    \/ \E g \in Goroutines, outcome \in DialOutcomes : LazyDialNet(g, outcome)
    \/ \E g \in Goroutines : LazyStore(g)
    \/ \E g \in Goroutines : LazyLoad(g)

SpecRace == Init /\ [][NextRace]_vars

\* httpResponse called with every status code and every choice of headers.
NextResp ==
    \E code \in Codes, sel \in [{"Date", "Content-Type", "Connection"} -> Supplied] :
        HttpResponse(code, sel)

SpecResp == Init /\ [][NextResp]_vars

(***************************************************************************)
(* One File handle on a directory that other clients may change            *)
(***************************************************************************)
\* A File as FileSystem.Open returns it: offset 0, eofNext false.
InitFile ==
    /\ dir \in SUBSET Names
    /\ offset = 0
    /\ eofNext = FALSE
    /\ delivered = <<>>
    /\ pageSize = NoCount
    /\ mutated = FALSE
    /\ rd = NoReaddir

InitDir == InitFile /\ InitRT /\ InitIdle

NextDir ==
    \/ \E count \in Counts : Readdir(count)
    \/ \E n \in Names : RemoteCreate(n)
    \/ \E n \in Names : RemoteRemove(n)

SpecDir == InitDir /\ [][NextDir]_vars

\* The names other clients may give to entries they create: those the
\* directory can hold when the handle is opened, and one more.
NewNames == 1..(MaxEntries + 1)

\* The same handle on a directory that grows beyond its size at Open.
NextChurn ==
    \/ \E count \in Counts : Readdir(count)
    \/ \E n \in NewNames : RemoteCreate(n)
    \/ \E n \in NewNames : RemoteRemove(n)

SpecChurn == InitDir /\ [][NextChurn]_vars

(***************************************************************************)
(* Claims about File.Readdir, checked under SpecDir.                       *)
(***************************************************************************)
\* The listing in ascending base-name order, stated without the code's sort.
Ascending(d) ==
    CHOOSE s \in [1..Cardinality(d) -> d] :
        \A i, j \in 1..Cardinality(d) : i < j => s[i] < s[j]

IsPrefix(s, t) == Len(s) <= Len(t) /\ s = SubSeq(t, 1, Len(s))

\* C1: while the directory listing stays fixed and every call uses one page
\* size c, the pages concatenate to the sorted listing with nothing missing or
\* duplicated: they are always a prefix of it, a call that does not complete
\* leaves a nonempty rest, the call that sets eofNext completes it, c <= 0
\* completes in a single call, and a call after completion returns no entries
\* and io.EOF.
C1_FixedPagingDeliversSortedListingOnce ==
    (~mutated /\ pageSize.used = "one") =>
        LET sorted == Ascending(dir)
            c == pageSize.count
        IN /\ IsPrefix(delivered, sorted)
           /\ eofNext => delivered = sorted
           /\ ~eofNext => /\ offset = Len(delivered)
                          /\ rd.err = "nil" => Len(delivered) < Len(sorted)
           /\ (c <= 0 /\ rd.err = "nil") => (eofNext /\ rd.entries = sorted)
           /\ (c > 0 /\ rd.err = "nil" /\ ~eofNext) => Len(rd.entries) = c
           /\ rd.eofBefore => (rd.err = "EOF" /\ rd.entries = <<>>)
           /\ rd.err # "panic"

\* C1 witness: a fixed listing of three entries was paged two entries at a
\* time (a full page, then the remainder), and one more call was made after.
C1_Witness ==
    /\ ~mutated /\ pageSize = [used |-> "one", count |-> 2]
    /\ eofNext /\ rd.eofBefore /\ rd.err = "EOF"
    /\ Len(delivered) = 3 /\ offset = 2

\* C2: a call made while eofNext is false with count <= 0, or with a listing
\* of at most count entries, returns exactly the listing from index offset
\* onward and sets eofNext.
C2_ReturnsRemainderFromOffset ==
    (rd.err = "nil" /\ ~rd.eofBefore /\ (rd.count <= 0 \/ Len(rd.fis) <= rd.count)) =>
        /\ rd.entries = SubSeq(rd.fis, rd.offBefore + 1, Len(rd.fis))
        /\ eofNext

\* C3: once eofNext is set, every later Readdir returns io.EOF and no entries
\* without listing the remote directory and leaves offset and eofNext as they
\* were, whatever the count and the directory; nothing resets eofNext.
C3_EofNextIsSticky ==
    /\ [](rd.eofBefore => /\ rd.err = "EOF" /\ rd.entries = <<>> /\ ~rd.listed
                          /\ eofNext /\ offset = rd.offBefore)
    /\ [][eofNext => (eofNext' /\ offset' = offset /\ delivered' = delivered)]_vars

\* C3 witness: after completion the directory gained entries that were never
\* delivered, and a Readdir with a positive count made then returned io.EOF.
C3_Witness ==
    /\ rd.eofBefore /\ rd.err = "EOF" /\ rd.count > 0
    /\ mutated /\ rd.remote > Len(delivered)

(***************************************************************************)
(* Claims about the pool of RoundTripper, checked under Spec.              *)
(***************************************************************************)
\* What every lazyDial does, whatever was called before: it dials exactly when
\* the pool has no entry for the host; an existing entry is returned as it is,
\* with no dial and no change of the pool; with no entry the dial uses the
\* default configuration and, when it succeeds, the new pair is stored and
\* returned (when it fails nothing is stored and the error is returned).
LazyDialStep ==
    LET h == last'.host
    IN /\ last'.dialed <=> h \notin DOMAIN conn
       /\ h \in DOMAIN conn =>
             /\ last'.pair = conn[h]
             /\ conn' = conn /\ clients' = clients
       /\ (h \notin DOMAIN conn /\ last'.pair # 0) =>
             /\ last'.pair = Len(clients) + 1 /\ Len(clients') = Len(clients) + 1
             /\ clients'[last'.pair].config = DefaultConfig
             /\ clients'[last'.pair].host = h
             /\ conn' = Put(conn, h, last'.pair)
       /\ (h \notin DOMAIN conn /\ last'.pair = 0) =>
             /\ last'.err # NilErr /\ last'.out.resp = NoResp /\ conn' = conn

\* C4 as stated: besides LazyDialStep, any two lazyDial calls for one host
\* that return a pair, with no Close in between, return the identical pair and
\* dial at most once between them.
C4_TwoLazyDialsNoCloseSamePair ==
    [][last'.op = "RoundTrip" =>
        LET p == prevLazy[last'.host]
        IN /\ LazyDialStep
           /\ (p.called /\ p.pair # 0 /\ last'.pair # 0) =>
                 (last'.pair = p.pair /\ ~(p.dialed /\ last'.dialed))]_vars

\* C4 amended: besides LazyDialStep, two lazyDial calls for one host that
\* return a pair, with no Close and no successful Dial for that host in
\* between, return the identical pair, and the second does not dial.
C4_TwoLazyDialsNoCloseNoDialSamePair ==
    [][last'.op = "RoundTrip" =>
        LET p == prevLazy[last'.host]
        IN /\ LazyDialStep
           /\ (p.called /\ p.pair # 0 /\ ~p.replaced /\ last'.pair # 0) =>
                 (last'.pair = p.pair /\ ~last'.dialed)]_vars

\* C4 witness: the host was dialed explicitly with its own configuration, and
\* the second of two lazyDial calls returned that pair without dialing.
C4_Witness ==
    /\ last.op = "RoundTrip" /\ last.again /\ ~last.dialed /\ last.pair # 0
    /\ conn[last.host] = last.pair
    /\ clients[last.pair].config = "user2"

\* C5: a Close that finds two or more hosts pooled and fails to close the SFTP
\* client of the first host it visits returns that error, makes no other Close
\* call on any client, and leaves the pool as it was; and every Close removes
\* exactly the entries whose two closes both succeeded.
C5_CloseStopsAtFirstSftpFailure ==
    [][last'.op = "Close" =>
        /\ DOMAIN conn' =
              (DOMAIN conn) \ {last'.visited[i][1] : i \in {j \in 1..Len(last'.visited) :
                                                              last'.visited[j][2] = "ok"}}
        /\ (Cardinality(DOMAIN conn) >= 2 /\ SftpFails(last'.visited[1][2])) =>
              LET k == last'.visited[1][1]
              IN /\ last'.err = Err("sftpc.Close", k)
                 /\ last'.attempts = <<<<k, "sftpc">>>>
                 /\ Len(last'.visited) = 1
                 /\ conn' = conn
                 /\ \A i \in 1..Len(clients) :
                        /\ clients'[i].sshc = clients[i].sshc
                        /\ i # conn[k] => clients'[i] = clients[i]]_vars

\* C5 witness: Close returned the SFTP close error of the first host it visited
\* after that one Close call, and two hosts are still pooled, the other with
\* both of its clients open.
C5_Witness ==
    /\ last.op = "Close" /\ last.err.kind = "sftpc.Close"
    /\ Len(last.attempts) = 1
    /\ Cardinality(DOMAIN conn) = 2
    /\ \E h \in DOMAIN conn :
          /\ h # last.err.at
          /\ clients[conn[h]].sftpc = "open" /\ clients[conn[h]].sshc = "open"

\* C6: when Close returns nil the pool is empty and every clientPair the
\* RoundTripper ever created, a replaced one included, has both its SFTP client
\* and its SSH connection closed.
C6_CloseNilClosesEveryPairCreated ==
    (last.op = "Close" /\ last.err = NilErr) =>
        /\ conn = NoConn
        /\ \A i \in 1..Len(clients) :
              clients[i].sftpc # "none" =>
                  (clients[i].sftpc = "closed" /\ clients[i].sshc = "closed")

\* C7: after every call has returned, no SSH connection is open while the SFTP
\* sub-session on it was never started or has been closed.
C7_HalvesNeverIndependentlyLive ==
    \A i \in 1..Len(clients) :
        ~(clients[i].sshc = "open" /\ clients[i].sftpc \in {"none", "closed"})

(***************************************************************************)
(* Claims about RoundTrip and get, checked under SpecGet.                  *)
(***************************************************************************)
\* The request of the last call was a GET / not a GET that got its session.
ResolvedGet == last.op = "RoundTrip" /\ last.method = "GET" /\ last.pair # 0
\* Open reached the server and no file operation was made to fail.
NoFault == last.fault = "none" /\ clients[last.pair].sftpc = "open"

\* C8: for a GET whose session resolves, an Open that fails with the SFTP
\* status "no such file" gives a 404 response with nil body and nil error; an
\* Open that fails with another status, or with an error that is no status
\* error, gives no response and that error; no goroutine is started and no
\* other file operation is made.
C8_OpenFailureMapping ==
    ResolvedGet =>
        LET file == RemoteFS[last.path]
            reached == last.fault # "open" /\ clients[last.pair].sftpc = "open"
        IN /\ (reached /\ file.status = sftpNoSuchFile) =>
                 /\ last.out.resp.StatusCode = StatusNotFound
                 /\ last.out.resp.Body = "nil"
                 /\ last.err = NilErr
                 /\ ~last.out.goroutine /\ last.out.ops = <<"Open">>
           /\ (reached /\ file.status \notin {0, sftpNoSuchFile}) =>
                 /\ last.out.resp = NoResp
                 /\ last.err = Err("status", ToString(file.status))
                 /\ ~last.out.goroutine /\ last.out.ops = <<"Open">>
           /\ ~reached =>
                 /\ last.out.resp = NoResp
                 /\ last.err = Err("conn", "Open")
                 /\ ~last.out.goroutine /\ last.out.ops = <<"Open">>

\* C8 witness: a GET of a path whose Open fails with a status other than "no
\* such file", on a session that lazyDial found in the pool, returned the error.
C8_Witness ==
    /\ ResolvedGet /\ ~last.dialed /\ last.path = "/denied" /\ NoFault
    /\ last.err.kind = "status" /\ last.out.resp = NoResp

\* C9 as stated: every request whose method is not GET gets a 405 response
\* with nil body and nil error and no file operation; no response has a
\* status other than 200, 404 or 405.
C9_NonGetAlways405 ==
    (last.op = "RoundTrip" /\ last.method # "GET") =>
        /\ last.out.resp.StatusCode = StatusMethodNotAllowed
        /\ last.out.resp.Body = "nil"
        /\ last.err = NilErr
        /\ last.out.ops = <<>>

\* C9 amended: every request whose method is not GET and whose session
\* resolves gets a 405 response with nil body and nil error and no file
\* operation; when the session does not resolve there is no response; no
\* response has a status other than 200, 404 or 405.
C9_NonGet405WhenSessionResolves ==
    last.op = "RoundTrip" =>
        /\ (last.method # "GET" /\ last.pair # 0) =>
              /\ last.out.resp.StatusCode = StatusMethodNotAllowed
              /\ last.out.resp.Body = "nil"
              /\ last.err = NilErr
              /\ last.out.ops = <<>> /\ last.out.handle = "none"
              /\ ~last.out.goroutine
        /\ last.pair = 0 => (last.out.resp = NoResp /\ last.err # NilErr)
        /\ last.out.resp # NoResp =>
              last.out.resp.StatusCode \in {StatusOK, StatusNotFound, StatusMethodNotAllowed}

\* C9 witness: a HEAD request for a file that exists got the 405.
C9_Witness ==
    /\ last.op = "RoundTrip" /\ last.method = "HEAD" /\ last.path = "/hello.txt"
    /\ last.pair # 0 /\ last.out.resp.StatusCode = StatusMethodNotAllowed

\* C10: a GET of an existing regular file with no recognized extension, of any
\* size, on a resolved session and with no failing file operation, reads at
\* most 512 bytes, leaves the read cursor at byte 0 and returns a 200 response
\* whose body is the pipe fed by the streaming goroutine.
C10_SniffThenServeAnySize ==
    (ResolvedGet /\ NoFault /\ RemoteFS[last.path].status = 0
        /\ TypeByExtension(RemoteFS[last.path].ext) = "") =>
        /\ last.out.nread <= SniffLen
        /\ last.out.pos = 0
        /\ last.out.resp.StatusCode = StatusOK
        /\ last.out.resp.Body = "pipe"
        /\ last.err = NilErr
        /\ last.out.goroutine

(***************************************************************************)
(* FileSystem.Close and stickyError                                        *)
(***************************************************************************)
\* The errors the two Close calls of fs.Close can return.
FSCloseErrs == {NilErr, Err("sftpc.Close", "fs"), Err("sshc.Close", "fs")}

\* C12: fs.Close calls Close on the SFTP sub-session and then on the SSH
\* connection whether or not the first call failed, and returns the first error
\* of the two (the sub-session's, else the connection's, else nil); a
\* stickyError that holds an error keeps it whatever is Set afterwards.
C12_FSCloseAttemptsBothReturnsFirst ==
    /\ [](\A e \in FSCloseErrs \ {NilErr}, err \in FSCloseErrs : StickySet(e, err) = e)
    /\ [][last'.op = "FSClose" =>
            /\ last'.attempts = <<<<"fs", "sftpc">>, <<"fs", "sshc">>>>
            /\ last'.err = IF last'.visited[1] # "ok" THEN Err("sftpc.Close", "fs")
                           ELSE IF last'.visited[2] # "ok" THEN Err("sshc.Close", "fs")
                           ELSE NilErr
            /\ clients'[fsPair].sftpc = "closed" \/ last'.visited[1] = "errOpen"
            /\ clients'[fsPair].sshc = "closed" \/ last'.visited[2] = "errOpen"]_vars

\* Both Close calls of one fs.Close failed.
C12_Witness ==
    /\ last.op = "FSClose"
    /\ last.visited = <<"errOpen", "errOpen">>
    /\ last.err = Err("sftpc.Close", "fs")

(***************************************************************************)
(* httpResponse: the headers of a response                                 *)
(***************************************************************************)
\* The values the caller supplied for header K, in order (<<>> when none).
CallerValues(K) ==
    LET ks == {k \in DOMAIN hcall.headers : CanonicalKey(k) = K}
    IN IF ks = {} THEN <<>> ELSE hcall.headers[CHOOSE k \in ks : TRUE]
\* The caller left header K unset: no value, or an empty one.
Unset(K) == CallerValues(K) = <<>> \/ CallerValues(K)[1] = ""
\* Header K of the response built (<<>> when it has none).
Built(K) == IF K \in DOMAIN hcall.resp.Header THEN hcall.resp.Header[K] ELSE <<>>

C14_EarlyCloseEndsProducer ==
    /\ [](stream.ppc # "panic" /\ stream.fcloses <= 1)
    /\ [](stream.ppc = "done" =>
             stream.fcloses = 1 /\ stream.handle = "closed" /\ stream.wclosed)
    /\ []((stream.early /\ stream.ppc = "done") =>
             stream.sErr # NilErr /\ stream.copied < stream.size)
    /\ [][(stream.rclosed /\ stream.ppc = "write" /\ stream.wbuf # <<>>
              /\ stream'.ppc # "write")
            => (stream'.ppc = "fclose" /\ stream'.fpos = stream.fpos
                /\ stream'.cpErr = Err("ErrClosedPipe", "Write"))]_vars
    /\ (stream.early ~> stream.ppc = "done")

\* The consumer closed the body with a Write under way; the Write failed and
\* the goroutine ran to its end.
C14_Witness ==
    /\ stream.early /\ stream.ppc = "done"
    /\ stream.cpErr = Err("ErrClosedPipe", "Write")
    /\ stream.body # <<>>
    /\ stream.fcloses = 1 /\ stream.wclosed

\* C15: when the copy of the goroutine fails (a remote Read fails, or the file
\* ends before stat.Size() bytes) or f.Close() fails, a consumer that reads the
\* body to its end gets, after the bytes delivered, the first of these errors
\* (the copy's if any, else the Close's) and not the ordinary end of stream
\* io.EOF; RoundTrip itself has returned the 200 with a nil error.
C15_CopyFailureIsTheBodysError ==
    (stream.started = 1 /\ stream.ended /\ ~stream.rclosed
        /\ (stream.cpErr # NilErr \/ stream.clErr # NilErr)) =>
        /\ stream.cerr = IF stream.cpErr # NilErr THEN stream.cpErr ELSE stream.clErr
        /\ stream.cerr # ioEOF
        /\ last.err = NilErr /\ last.out.resp.StatusCode = StatusOK

\* C16: a GET that returns a 200 has started exactly one producer goroutine
\* (any other request none) and has returned whatever the consumer has read;
\* the producer cannot run ahead of the consumer: io.CopyN has never written
\* more bytes than the consumer has read, so the bytes taken from the file and
\* not yet read never exceed one chunk of the copy; and a consumer's Read can
\* return whenever a Write is under way or the write side is closed.
C16_OneProducerHeldBackByConsumer ==
    /\ stream.started = IF last.op = "RoundTrip" /\ last.out.resp.StatusCode = StatusOK
                        THEN 1 ELSE 0
    /\ stream.started = 1 =>
          /\ last.out.goroutine /\ last.out.resp.Body = "pipe"
          /\ stream.copied <= Len(stream.body)
          /\ stream.fpos - Len(stream.body) <= MaxChunk
          /\ stream.fpos - stream.copied <= MaxChunk
          /\ (~stream.rclosed /\ ~stream.ended /\ (stream.wbuf # <<>> \/ stream.wclosed))
                => ENABLED (\E all \in BOOLEAN : ConsumerRead(all))

\* The 200 was returned and the producer sits in its second Write with a full
\* chunk that the consumer has not begun to read.
C16_Witness ==
    /\ stream.started = 1 /\ stream.ppc = "write"
    /\ Len(stream.wbuf) = MaxChunk
    /\ stream.copied = MaxChunk /\ Len(stream.body) = MaxChunk
    /\ stream.fpos = 2 * MaxChunk
    /\ last.out.resp.StatusCode = StatusOK

(***************************************************************************)
(* Remote file handles                                                     *)
(***************************************************************************)
\* C17: a remote file handle that a GET or fs.Open opened is, when the call
\* returns, either handed on (to the goroutine that closes it after the copy,
\* or to the caller inside the File) or closed: after an error return that
\* follows a successful Open (Stat, sniffing Read or Seek failed) the handle is
\* not left open.
C17_HandleHandedOnOrClosed ==
    /\ (last.op = "RoundTrip" /\ ~last.out.goroutine) => last.out.handle # "open"
    /\ (last.op = "Open" /\ last.err # NilErr) => last.out.handle # "open"

(***************************************************************************)
(* File.Readdir on a directory that changes                                *)
(***************************************************************************)
\* C18: whatever counts the Readdir calls use and however the directory gains
\* and loses entries between them, where a call slices the listing it fetched,
\* offset is at most the length of that listing, so that no call reaches out
\* of range and crashes.
C18_OffsetWithinFetchedListing ==
    rd.listed =>
        /\ rd.err # "panic"
        /\ (rd.count > 0 /\ Len(rd.fis) > rd.count) => rd.offBefore <= Len(rd.fis)

(***************************************************************************)
(* The pool after a Close that failed                                      *)
(***************************************************************************)
\* C19: after any sequence of Dial, RoundTrip and Close, a Close that returned
\* an error part-way included, every pair in the pool has its SFTP sub-session
\* and its SSH connection open, and so has every pair that lazyDial returned
\* to the latest RoundTrip.
C19_PooledPairsHaveBothHalvesOpen ==
    /\ \A h \in DOMAIN conn :
          clients[conn[h]].sftpc = "open" /\ clients[conn[h]].sshc = "open"
    /\ (last.op = "RoundTrip" /\ last.pair # 0) =>
          clients[last.pair].sftpc = "open" /\ clients[last.pair].sshc = "open"

(***************************************************************************)
(* lazyDial from two goroutines                                            *)
(***************************************************************************)
\* C20: when two RoundTrip calls for one host that has no pool entry run at the
\* same time on one RoundTripper, then however their steps interleave the
\* program is not stopped, at most one dial of the host yields a pair, two
\* calls that both return a pair return the same pair, and no pair that was
\* dialed is open and missing from the pool.
C20_ConcurrentLazyDialDialsOnce ==
    /\ ~race.crashed
    /\ (\A g \in Goroutines : race.thr[g].pc = "done"
            /\ race.thr[g].host = race.thr[1].host) =>
          /\ Cardinality({i \in 1..Len(clients) :
                             /\ clients[i].host = race.thr[1].host
                             /\ clients[i].sftpc # "none"}) <= 1
          /\ (\A g \in Goroutines : race.thr[g].pair # 0) =>
                 race.thr[1].pair = race.thr[2].pair
          /\ \A i \in 1..Len(clients) :
                 (clients[i].sshc = "open" /\ clients[i].sftpc = "open")
                    => \E h \in DOMAIN conn : conn[h] = i


====
